---------------------------- MODULE Spec2Model ----------------------------
(***************************************************************************)
(* Checkpoint lifecycle of mesh_tensorflow/transformer/utils.py:           *)
(* the step codec (get_step_from_checkpoint_path, _get_checkpoint_path)    *)
(* and the checkpoint resolver (get_checkpoint_iterator) running against a *)
(* checkpoint directory that an external training loop writes to.          *)
(*                                                                         *)
(* Strings are sequences of one-character strings, so that formatting and  *)
(* regex parsing are computed character by character.                      *)
(***************************************************************************)
EXTENDS Integers, Sequences, FiniteSets, TLC

(***************************************************************************)
(* Bounds of the model.                                                    *)
(***************************************************************************)
\* Checkpoints are written at steps 0..MaxStep.
MaxStep == 2
\* A list selector holds at most MaxList requested steps.
MaxList == 2
\* skip_until (the floor) ranges over 0..MaxSkip.
MaxSkip == 1
\* The codec is exercised on steps 0..MaxCodecStep (one to three digits).
MaxCodecStep == 120
\* A layer stack has at most MaxBlocks blocks (or no block grouping).
MaxBlocks == 2
\* A layer stack, or a block of it, has at most MaxLayers layers.
MaxLayers == 2

VARIABLES
  model_dir,      \* the base directory handed to get_checkpoint_iterator
  dir,            \* the directory's file names, as listdir returns them
  sel_kind,       \* kind of checkpoint_step: "none" (no call yet), "all", "latest",
                  \* "int", "list", "cont" (None)
  steps_req,      \* the requested step(s) of an int / list selector
  find_closest,   \* the find_closest argument
  skip_until,     \* the skip_until argument (the floor)
  outcome,        \* "none", "returned" or "ValueError"
  result,         \* the returned list of checkpoint paths
  codec_step,     \* StepCodec: the step last formatted (-1: none)
  codec_path,     \* StepCodec: the identifier built for codec_step
  codec_parsed,   \* StepCodec: the step parsed back from codec_path (-1: none)
  stop_after,     \* continuous mode: the stop_after argument (-1: None)
  iter_last,      \* continuous mode: the path checkpoints_iterator yielded last
  observed,       \* continuous mode: the paths that passed the floor filter
  yielded,        \* continuous mode: the paths yielded to the consumer
  cont_done,      \* continuous mode: the generator has ended
  fn_pc,          \* remapping functions: "idle", "ready" (arguments drawn), "done"
  var_names,      \* _compute_num_blocks_and_layer: its argument
  max_block_num,  \* _compute_num_blocks_and_layer: the first list returned
  max_layer_num,  \* _compute_num_blocks_and_layer: the second list returned
  build_args,     \* _build_ckpt_to_local_var_name_mapping: its arguments
  build_mapping,  \* _build_ckpt_to_local_var_name_mapping: the dict returned
  build_error,    \* _build_ckpt_to_local_var_name_mapping: "none" or "ValueError"
  match_args,     \* _match_ckpt_to_local_var_name: its arguments
  match_result,   \* _match_ckpt_to_local_var_name: the boolean returned
  ckpt_var_names, \* flexible_ckpt_init_mapping: tf.train.list_variables(ckpt_path)
  local_var_names,\* flexible_ckpt_init_mapping: names of tf.global_variables()
  new_layers,     \* flexible_ckpt_init_mapping: the new_layers argument
  ckpt_counts,    \* flexible_ckpt_init_mapping: ckpt_num_blocks, ckpt_num_layers
  local_counts,   \* flexible_ckpt_init_mapping: local_num_blocks, local_num_layers
  mappings,       \* flexible_ckpt_init_mapping: the regex mappings of the sub-trees
  graph_var_to_ckpt_var, \* flexible_ckpt_init_mapping: the dict behind mapping_fn / filter_fn
  remap_error,    \* flexible_ckpt_init_mapping: "none", "ValueError" or "IndexError"
  query_name,     \* the var_name the returned functions were last called with
  query_filter,   \* what filter_fn(query_name) returned
  query_mapping,  \* what mapping_fn(query_name) returned, or the KeyError it raised
  closest_steps,  \* closest mode, list selector: the closest steps found so far
  snapshots       \* the states the directory went through during that call

vars == <<model_dir, dir, sel_kind, steps_req, find_closest, skip_until,
          outcome, result, codec_step, codec_path, codec_parsed,
          stop_after, iter_last, observed, yielded, cont_done,
          fn_pc, var_names, max_block_num, max_layer_num,
          build_args, build_mapping, build_error, match_args, match_result,
          ckpt_var_names, local_var_names, new_layers, ckpt_counts,
          local_counts, mappings, graph_var_to_ckpt_var, remap_error,
          query_name, query_filter, query_mapping, closest_steps,
          snapshots>>

(***************************************************************************)
(* Characters and strings.                                                 *)
(***************************************************************************)
DigitChars == <<"0", "1", "2", "3", "4", "5", "6", "7", "8", "9">>

IsDigit(c) == \E i \in 1..10 : DigitChars[i] = c

DigitVal(c) == (CHOOSE i \in 1..10 : DigitChars[i] = c) - 1

Abs(x) == IF x < 0 THEN -x ELSE x

\* "{}".format(step) of an int: its base-10 digits, "-" first when negative.
RECURSIVE FormatNat(_)
FormatNat(n) ==
  IF n < 10 THEN <<DigitChars[n + 1]>>
  ELSE FormatNat(n \div 10) \o <<DigitChars[(n % 10) + 1]>>

FormatInt(n) == IF n < 0 THEN <<"-">> \o FormatNat(-n) ELSE FormatNat(n)

\* int(s) of a string of digits.
RECURSIVE ParseDigits(_)
ParseDigits(s) ==
  IF s = <<>> THEN 0
  ELSE 10 * ParseDigits(SubSeq(s, 1, Len(s) - 1)) + DigitVal(s[Len(s)])

\* The literal "model.ckpt-" of the identifier format and of the regex.
CkptLiteral == <<"m", "o", "d", "e", "l", ".", "c", "k", "p", "t", "-">>

\* The glob stem "model.ckpt" of "all" mode.
GlobStem == <<"m", "o", "d", "e", "l", ".", "c", "k", "p", "t">>

HasAt(s, i, lit) ==
  /\ i >= 1
  /\ i + Len(lit) - 1 <= Len(s)
  /\ SubSeq(s, i, i + Len(lit) - 1) = lit

StartsWith(s, lit) == HasAt(s, 1, lit)

\* os.path.join(a, b) for a relative b.
os_path_join(a, b) ==
  IF a = <<>> THEN b
  ELSE IF a[Len(a)] = "/" THEN a \o b
  ELSE a \o <<"/">> \o b


(***************************************************************************)
(* StepCodec.                                                              *)
(***************************************************************************)
\* The value standing for "no step": get_step_from_checkpoint_path raised
\* ValueError (a parsed step is never negative), or nothing formatted yet.
NoStep == -1

\* Where re.match(r".*model\.ckpt\-(\d+).*", path) can place the literal: the
\* positions at which "model.ckpt-" is followed by at least one digit.
MatchStarts(path) ==
  { i \in 1..Len(path) :
      /\ HasAt(path, i, CkptLiteral)
      /\ i + Len(CkptLiteral) <= Len(path)
      /\ IsDigit(path[i + Len(CkptLiteral)]) }

\* match is not None.
IsCheckpointPath(path) == MatchStarts(path) # {}

\* Mutant: a lazy leading ".*?" would match the literal at its first position.
LazyStart(starts) == CHOOSE i \in starts : \A j \in starts : i <= j

\* The leading ".*" is greedy: the literal is matched at its last position.
GreedyStart(starts) == CHOOSE i \in starts : \A j \in starts : j <= i

\* "(\d+)" is greedy: the whole run of digits that starts at position j.
DigitRunEnd(path, j) ==
  CHOOSE k \in j..Len(path) :
    /\ \A m \in j..k : IsDigit(path[m])
    /\ (k = Len(path) \/ ~IsDigit(path[k + 1]))

\* match.group(1), for the candidate positions of the literal.
MatchGroup(path, starts) ==
  LET j == GreedyStart(starts) + Len(CkptLiteral)
  IN  SubSeq(path, j, DigitRunEnd(path, j))

get_step_from_checkpoint_path(path) ==
  LET starts == MatchStarts(path)
  IN  IF starts = {} THEN NoStep
      ELSE ParseDigits(MatchGroup(path, starts))

\* os.path.join(model_dir, "model.ckpt-{}".format(step))
CheckpointName(step) == CkptLiteral \o FormatInt(step)

_get_checkpoint_path(step) == os_path_join(model_dir, CheckpointName(step))

(***************************************************************************)
(* The checkpoint directory and its writer.                                *)
(***************************************************************************)
IndexSuffix == <<".", "i", "n", "d", "e", "x">>
MetaSuffix == <<".", "m", "e", "t", "a">>

\* The files one saved checkpoint consists of: they share the stem.
CkptFiles(s) == { CheckpointName(s) \o IndexSuffix, CheckpointName(s) \o MetaSuffix }

\* A checkpoint saved without a global step: matches "model.ckpt*", carries no step.
UnnumberedCkptFile == <<"m", "o", "d", "e", "l", ".", "c", "k", "p", "t", ".", "m", "e", "t", "a">>
\* A file that is no checkpoint at all.
GraphFile == <<"g", "r", "a", "p", "h", ".", "p", "b", "t", "x", "t">>

StrayFiles == { UnnumberedCkptFile, GraphFile }

Steps == 0..MaxStep

\* The steps whose checkpoint is in the directory.
SavedSteps == { s \in Steps : CkptFiles(s) \subseteq dir }

\* tf.train.checkpoint_exists(path): the index file of that stem exists.
checkpoint_exists(path) ==
  \E f \in dir : os_path_join(model_dir, f) = path \o IndexSuffix

\* Base directories of the resolver's runs and of the codec's.
ModelDirs == { <<"r", "u", "n", "2">> }
CodecDirs == { <<>>, <<"a", "/">>, <<"r", "u", "n", "2">>, <<"m", "o", "d", "e", "l", ".", "c", "k", "p", "t", "-", "7">> }

(***************************************************************************)
(* CheckpointResolver: get_checkpoint_iterator.                            *)
(***************************************************************************)
Min(S) == CHOOSE m \in S : \A x \in S : m <= x

\* sorted(list(S)), and np.unique of a list whose values are S.
RECURSIVE SortedSeq(_)
SortedSeq(S) ==
  IF S = {} THEN <<>>
  ELSE LET m == Min(S) IN <<m>> \o SortedSeq(S \ {m})

\* The steps _get_closest_checkpoint collects from listdir: a file name that
\* carries no step raises ValueError inside the try and is skipped.
ListedSteps == { get_step_from_checkpoint_path(f) : f \in dir } \ { NoStep }

RECURSIVE Reverse(_)
Reverse(q) == IF q = <<>> THEN <<>> ELSE Append(Reverse(Tail(q)), Head(q))

\* The order in which "for c in checkpoints" visits a Python set is not
\* fixed by its members (it follows hash slots and, on a collision, the
\* order of insertion, which is the order of the directory listing: CPython
\* lists {8, 16} as 8, 16 and {16, 8} as 16, 8).  The model leaves open
\* whether the set is visited in ascending or in descending order, which
\* lets either of two equally distant steps be met first.
IterOrders == {"ascending", "descending"}

SetIterOrder(S, order) ==
  IF order = "ascending" THEN SortedSeq(S) ELSE Reverse(SortedSeq(S))

\* Mutant: the distances compared without abs().
IsCloserSigned(target, c, closest) ==
  \/ closest = <<>>
  \/ target - c < target - closest[1]

\* abs(target - c) < abs(target - closest), closest starting as float("inf")
\* (modelled as <<>>; a found step c as <<c>>).
IsCloser(target, c, closest) ==
  \/ closest = <<>>
  \/ Abs(target - c) < Abs(target - closest[1])

RECURSIVE ClosestLoop(_, _, _)
ClosestLoop(target, order, closest) ==
  IF order = <<>> THEN closest
  ELSE ClosestLoop(target, Tail(order),
                   IF IsCloser(target, Head(order), closest)
                   THEN <<Head(order)>> ELSE closest)

\* NoStep stands for the ValueError "No checkpoint files found".
_get_closest_checkpoint(target, order) ==
  LET checkpoints == ListedSteps
  IN  IF checkpoints = {} THEN NoStep
      ELSE ClosestLoop(target, SetIterOrder(checkpoints, order), <<>>)[1]

\* Mutant: the path is handed out without asking whether it exists.
PathUnchecked(step) == <<_get_checkpoint_path(step)>>

\* <<>> stands for None.
_get_checkpoint_path_if_exists(step) ==
  LET path == _get_checkpoint_path(step)
  IN  IF checkpoint_exists(path) THEN <<path>> ELSE <<>>

\* Mutant: a floor that lets step == skip_until through.
FilterInclusive(p, floor) == get_step_from_checkpoint_path(p) >= floor

_filter_fn(p, floor) == get_step_from_checkpoint_path(p) > floor

Max(S) == CHOOSE m \in S : \A x \in S : x <= m

\* tf.train.latest_checkpoint(model_dir): the checkpoint the manifest names,
\* which is the one saved last; <<>> stands for None.  (The directory is
\* listed once: saved ranges over the one listing.)
latest_checkpoint ==
  CHOOSE p \in { IF saved = {} THEN <<>>
                 ELSE os_path_join(model_dir, CheckpointName(Max(saved))) :
                 saved \in {ListedSteps} } : TRUE

Raised == [outcome |-> "ValueError", result |-> <<>>]
Returned(paths) == [outcome |-> "returned", result |-> paths]

\* tf.gfile.Glob(os.path.join(model_dir, "model.ckpt*"))
GlobCkptPaths ==
  { os_path_join(model_dir, f) : f \in { g \in dir : StartsWith(g, GlobStem) } }

\* checkpoint_step == "all"
ResolveAll(floor) ==
  LET ckpt_steps == { get_step_from_checkpoint_path(p) : p \in GlobCkptPaths }
      sorted == SortedSeq(ckpt_steps)
      paths == [i \in 1..Len(sorted) |-> _get_checkpoint_path(sorted[i])]
  IN  IF NoStep \in ckpt_steps THEN Raised
      ELSE Returned(SelectSeq(paths, LAMBDA p : _filter_fn(p, floor)))

\* Mutant: the list's closest steps without np.unique (request order, repeats kept).
ResolveClosestNoUnique(kind, req, order) ==
  LET found == [i \in 1..Len(req) |-> _get_closest_checkpoint(req[i], order)]
  IN  IF \E i \in 1..Len(req) : found[i] = NoStep THEN Raised
      ELSE Returned([i \in 1..Len(req) |-> _get_checkpoint_path(found[i])])

\* find_closest, an int or a list of ints
ResolveClosest(kind, req, order) ==
  IF kind = "int"
  THEN LET c == _get_closest_checkpoint(req[1], order)
       IN  IF c = NoStep THEN Raised ELSE Returned(<<_get_checkpoint_path(c)>>)
  ELSE LET found == { _get_closest_checkpoint(req[i], order) : i \in 1..Len(req) }
           closests == SortedSeq(found)
       IN  IF NoStep \in found THEN Raised
           ELSE Returned([i \in 1..Len(closests) |-> _get_checkpoint_path(closests[i])])

RECURSIVE Concat(_)
Concat(ss) == IF ss = <<>> THEN <<>> ELSE Head(ss) \o Concat(Tail(ss))

\* Mutant: the exact paths deduplicated and sorted by step, any missing one an error.
ResolveExactStrict(req) ==
  LET wanted == { req[i] : i \in 1..Len(req) }
      sorted == SortedSeq(wanted)
  IN  IF \E t \in wanted : ~checkpoint_exists(_get_checkpoint_path(t)) THEN Raised
      ELSE Returned([i \in 1..Len(sorted) |-> _get_checkpoint_path(sorted[i])])

\* not find_closest: an int is wrapped into a one-element list
ResolveExact(req) ==
  LET checkpoints ==
        Concat([i \in 1..Len(req) |-> _get_checkpoint_path_if_exists(req[i])])
  IN  IF checkpoints = <<>> THEN Raised ELSE Returned(checkpoints)

\* checkpoint_step == -1: the list of the one value latest_checkpoint returns,
\* None included.
ResolveLatest == Returned(<<latest_checkpoint>>)

\* Mutant: the floor applied to what every mode returns.
ResolveFloored(kind, req, floor, closest, order) ==
  LET r == IF kind = "all" THEN ResolveAll(floor)
           ELSE IF kind = "latest" THEN ResolveLatest
           ELSE IF closest THEN ResolveClosest(kind, req, order)
           ELSE ResolveExact(req)
  IN  [r EXCEPT !.result = SelectSeq(r.result, LAMBDA p : _filter_fn(p, floor))]

get_checkpoint_iterator(kind, req, floor, closest, order) ==
  IF kind = "all" THEN ResolveAll(floor)
  ELSE IF kind = "latest" THEN ResolveLatest
  ELSE IF closest THEN ResolveClosest(kind, req, order)
  ELSE ResolveExact(req)

(***************************************************************************)
(* The state machine.                                                      *)
(***************************************************************************)
\* Steps a caller may ask for.
Requests == Steps

RECURSIVE SeqsUpTo(_, _)
SeqsUpTo(S, n) ==
  IF n = 0 THEN { <<>> }
  ELSE LET shorter == SeqsUpTo(S, n - 1)
       IN  shorter \cup { Append(q, x) : q \in { r \in shorter : Len(r) = n - 1 }, x \in S }

RequestLists == SeqsUpTo(Requests, MaxList)

Floors == 0..MaxSkip

NoCall ==
  /\ sel_kind = "none"
  /\ steps_req = <<>>
  /\ find_closest = TRUE
  /\ skip_until = 0
  /\ outcome = "none"
  /\ result = <<>>

CodecIdle ==
  /\ codec_step = NoStep
  /\ codec_path = <<>>
  /\ codec_parsed = NoStep

ContIdle ==
  /\ stop_after = NoStep
  /\ iter_last = <<>>
  /\ observed = <<>>
  /\ yielded = <<>>
  /\ cont_done = FALSE

\* No list selector is being resolved element by element.
StepwiseIdle ==
  /\ closest_steps = <<>>
  /\ snapshots = {}

\* No structure inferred yet.
InferIdle ==
  /\ var_names = <<>>
  /\ max_block_num = <<>>
  /\ max_layer_num = <<>>

\* No correspondence built yet.
BuildIdle ==
  /\ build_args = <<>>
  /\ build_mapping = <<>>
  /\ build_error = "none"

\* No pair of names matched yet.
MatchIdle ==
  /\ match_args = <<>>
  /\ match_result = FALSE

\* No remapping index built yet.
RemapIdle ==
  /\ ckpt_var_names = <<>>
  /\ local_var_names = <<>>
  /\ new_layers = <<>>
  /\ ckpt_counts = <<>>
  /\ local_counts = <<>>
  /\ mappings = <<>>
  /\ graph_var_to_ckpt_var = <<>>
  /\ remap_error = "none"

\* Neither returned function was called yet.
QueryIdle ==
  /\ query_name = <<>>
  /\ query_filter = FALSE
  /\ query_mapping = <<>>

\* None of the remapping functions is in use.
FnIdle ==
  /\ fn_pc = "idle"
  /\ InferIdle
  /\ BuildIdle
  /\ MatchIdle
  /\ RemapIdle
  /\ QueryIdle

Init ==
  /\ model_dir \in ModelDirs
  /\ dir = {}
  /\ NoCall
  /\ CodecIdle
  /\ ContIdle
  /\ StepwiseIdle
  /\ FnIdle

callVars == <<sel_kind, steps_req, find_closest, skip_until, outcome, result>>
codecVars == <<codec_step, codec_path, codec_parsed>>
contVars == <<stop_after, iter_last, observed, yielded, cont_done>>
inferVars == <<var_names, max_block_num, max_layer_num>>
buildVars == <<build_args, build_mapping, build_error>>
matchVars == <<match_args, match_result>>
remapVars == <<ckpt_var_names, local_var_names, new_layers, ckpt_counts,
               local_counts, mappings, graph_var_to_ckpt_var, remap_error>>
queryVars == <<query_name, query_filter, query_mapping>>
stepVars == <<closest_steps, snapshots>>
fnVars == <<fn_pc, inferVars, buildVars, matchVars, remapVars, queryVars>>
resolverVars == <<model_dir, dir, callVars, codecVars, contVars, stepVars>>

\* The training loop saves the next checkpoint (steps only grow).  It runs
\* between the resolver's calls and beside a continuous-mode sequence.
SaveCheckpoint(s) ==
  /\ sel_kind \in {"none", "cont"}
  /\ \A t \in ListedSteps : t < s
  /\ dir' = dir \cup CkptFiles(s)
  /\ UNCHANGED <<model_dir, callVars, codecVars, contVars, stepVars, fnVars>>

\* The saver's keep_checkpoint_max removes an old checkpoint.
DeleteCheckpoint(s) ==
  /\ sel_kind = "none"
  /\ CkptFiles(s) \subseteq dir
  /\ dir' = dir \ CkptFiles(s)
  /\ UNCHANGED <<model_dir, callVars, codecVars, contVars, stepVars, fnVars>>

\* Another file appears in the directory.
WriteStray(f) ==
  /\ sel_kind = "none"
  /\ f \notin dir
  /\ dir' = dir \cup {f}
  /\ UNCHANGED <<model_dir, callVars, codecVars, contVars, stepVars, fnVars>>

\* One call of get_checkpoint_iterator.
Call(kind, req, floor, closest, order) ==
  /\ sel_kind = "none"
  /\ LET r == get_checkpoint_iterator(kind, req, floor, closest, order)
     IN  /\ outcome' = r.outcome
         /\ result' = r.result
  /\ sel_kind' = kind
  /\ steps_req' = req
  /\ skip_until' = floor
  /\ find_closest' = closest
  /\ UNCHANGED <<model_dir, dir, codecVars, contVars, stepVars, fnVars>>

\* The same selector is resolved again against the same directory
\* (eval_model, infer_model and export each resolve it on their own).  Only
\* a closest-mode call reads the iteration order; any other call repeated
\* returns what it returned.
CallAgain(order) ==
  /\ sel_kind \in {"int", "list"}
  /\ find_closest
  /\ LET r == get_checkpoint_iterator(sel_kind, steps_req, skip_until,
                                      find_closest, order)
     IN  /\ outcome' = r.outcome
         /\ result' = r.result
  /\ UNCHANGED <<model_dir, dir, sel_kind, steps_req, find_closest,
                 skip_until, codecVars, contVars, stepVars, fnVars>>

\* The consumer is done with the returned paths.
Consume ==
  /\ sel_kind # "none"
  /\ sel_kind' = "none"
  /\ steps_req' = <<>>
  /\ find_closest' = TRUE
  /\ skip_until' = 0
  /\ outcome' = "none"
  /\ result' = <<>>
  /\ UNCHANGED <<model_dir, dir, codecVars, contVars, stepVars, fnVars>>

Next ==
  \/ \E s \in Steps : SaveCheckpoint(s)
  \/ \E s \in Steps : DeleteCheckpoint(s)
  \/ \E f \in StrayFiles : WriteStray(f)
  \/ \E floor \in Floors : Call("all", <<>>, floor, TRUE, "ascending")
  \/ \E floor \in Floors : Call("latest", <<>>, floor, TRUE, "ascending")
  \/ \E t \in Requests, floor \in Floors, order \in IterOrders :
       Call("int", <<t>>, floor, TRUE, order)
  \/ \E t \in Requests, floor \in Floors :
       Call("int", <<t>>, floor, FALSE, "ascending")
  \/ \E req \in RequestLists, floor \in Floors, order \in IterOrders :
       Call("list", req, floor, TRUE, order)
  \/ \E req \in RequestLists, floor \in Floors :
       Call("list", req, floor, FALSE, "ascending")
  \/ \E order \in IterOrders : CallAgain(order)
  \/ Consume

Spec == Init /\ [][Next]_vars

(***************************************************************************)
(* The codec on its own: format a step, parse the identifier back.         *)
(***************************************************************************)
InitCodec ==
  /\ model_dir \in CodecDirs
  /\ dir = {}
  /\ NoCall
  /\ CodecIdle
  /\ ContIdle
  /\ StepwiseIdle
  /\ FnIdle

RoundTrip(s) ==
  /\ codec_step' = s
  /\ codec_path' = _get_checkpoint_path(s)
  /\ codec_parsed' = get_step_from_checkpoint_path(_get_checkpoint_path(s))
  /\ UNCHANGED <<model_dir, dir, callVars, contVars, stepVars, fnVars>>

NextCodec == \E s \in 0..MaxCodecStep : RoundTrip(s)

SpecCodec == InitCodec /\ [][NextCodec]_vars

(***************************************************************************)
(* Continuous mode: checkpoint_step is None.                               *)
(***************************************************************************)
\* Mutant: the path is yielded whatever its step.
GenerateAlwaysYield(p, ceiling) ==
  IF ceiling = NoStep THEN [yield |-> TRUE, stop |-> FALSE]
  ELSE [yield |-> TRUE, stop |-> get_step_from_checkpoint_path(p) >= ceiling]

\* Mutant: the loop ends only on the step that equals the ceiling.
GenerateStopAtEqual(p, ceiling) ==
  IF ceiling = NoStep THEN [yield |-> TRUE, stop |-> FALSE]
  ELSE LET step == get_step_from_checkpoint_path(p)
       IN  [yield |-> step <= ceiling, stop |-> step = ceiling]

\* One turn of the loop of _generate_checkpoints on path p; with stop_after
\* None the filtered iterator itself is returned and yields every path.
_generate_checkpoints(p, ceiling) ==
  IF ceiling = NoStep THEN [yield |-> TRUE, stop |-> FALSE]
  ELSE LET step == get_step_from_checkpoint_path(p)
       IN  [yield |-> step <= ceiling, stop |-> step >= ceiling]

\* The ceilings a caller may pass: None or a step.
Ceilings == {NoStep} \cup Steps

\* get_checkpoint_iterator(None, model_dir, skip_until, stop_after) returns
\* the lazy sequence; nothing is read from the directory yet.
StartContinuous(floor, ceiling) ==
  /\ sel_kind = "none"
  /\ sel_kind' = "cont"
  /\ skip_until' = floor
  /\ stop_after' = ceiling
  /\ outcome' = "returned"
  /\ UNCHANGED <<model_dir, dir, steps_req, find_closest, result, codecVars,
                 iter_last, observed, yielded, cont_done, stepVars, fnVars>>

\* The consumer asks for the next element: tf.train.checkpoints_iterator
\* polls until latest_checkpoint differs from the path it yielded last (the
\* action is disabled while it does not), the path goes through
\* filter(_filter_fn, ...) and then through the loop of _generate_checkpoints.
PollNext ==
  /\ sel_kind = "cont"
  /\ ~cont_done
  /\ \E p \in {latest_checkpoint} :
       /\ p # <<>>
       /\ p # iter_last
       /\ iter_last' = p
       /\ IF ~_filter_fn(p, skip_until)
          THEN UNCHANGED <<observed, yielded, cont_done>>
          ELSE \E g \in {_generate_checkpoints(p, stop_after)} :
                 /\ observed' = Append(observed, p)
                 /\ yielded' = IF g.yield THEN Append(yielded, p) ELSE yielded
                 /\ cont_done' = g.stop
  /\ UNCHANGED <<model_dir, dir, callVars, codecVars, stop_after, stepVars,
                 fnVars>>

NextCont ==
  \/ \E floor \in Floors, ceiling \in Ceilings : StartContinuous(floor, ceiling)
  \/ \E s \in Steps : SaveCheckpoint(s)
  \/ PollNext

SpecCont == Init /\ [][NextCont]_vars

\* The consumer keeps asking for the next element and checkpoints_iterator
\* keeps polling (its timeout is None): a path that differs from the last one
\* is picked up in the end.  The training loop owes nothing.
SpecContFair == SpecCont /\ WF_vars(PollNext)

(***************************************************************************)
(* Closest mode on a list, call by call of _get_closest_checkpoint, beside *)
(* the training loop.                                                      *)
(***************************************************************************)
\* The call is between its first line and its return.
Resolving == sel_kind = "list" /\ find_closest /\ outcome = "none"

\* get_checkpoint_iterator(req, model_dir, find_closest=True) is entered with
\* a list; nothing is read from the directory yet.
StartClosestList(req) ==
  /\ sel_kind = "none"
  /\ sel_kind' = "list"
  /\ steps_req' = req
  /\ find_closest' = TRUE
  /\ closest_steps' = <<>>
  /\ snapshots' = {dir}
  /\ UNCHANGED <<model_dir, dir, skip_until, outcome, result, codecVars,
                 contVars, fnVars>>

\* The next turn of [_get_closest_checkpoint(c) for c in checkpoint_step]:
\* the directory is listed again for this element; an empty listing raises.
ClosestOfNext(order) ==
  /\ Resolving
  /\ Len(closest_steps) < Len(steps_req)
  /\ \E c \in {_get_closest_checkpoint(steps_req[Len(closest_steps) + 1], order)} :
       IF c = NoStep
       THEN outcome' = "ValueError" /\ UNCHANGED closest_steps
       ELSE closest_steps' = Append(closest_steps, c) /\ UNCHANGED outcome
  /\ UNCHANGED <<model_dir, dir, sel_kind, steps_req, find_closest, skip_until,
                 result, snapshots, codecVars, contVars, fnVars>>

\* np.unique of the closest steps, and the list of their paths is returned.
ReturnClosests ==
  /\ Resolving
  /\ Len(closest_steps) = Len(steps_req)
  /\ LET closests ==
           SortedSeq({ closest_steps[i] : i \in 1..Len(closest_steps) })
     IN  result' = [i \in 1..Len(closests) |-> _get_checkpoint_path(closests[i])]
  /\ outcome' = "returned"
  /\ UNCHANGED <<model_dir, dir, sel_kind, steps_req, find_closest, skip_until,
                 stepVars, codecVars, contVars, fnVars>>

\* The training loop saves the next checkpoint while the call is running.
SaveDuringCall(s) ==
  /\ Resolving
  /\ \A t \in ListedSteps : t < s
  /\ dir' = dir \cup CkptFiles(s)
  /\ snapshots' = snapshots \cup {dir'}
  /\ UNCHANGED <<model_dir, callVars, closest_steps, codecVars, contVars, fnVars>>

NextStepwise ==
  \/ \E s \in Steps : SaveCheckpoint(s)
  \/ \E req \in RequestLists : StartClosestList(req)
  \/ \E order \in IterOrders : ClosestOfNext(order)
  \/ ReturnClosests
  \/ \E s \in Steps : SaveDuringCall(s)

SpecStepwise == Init /\ [][NextStepwise]_vars

(***************************************************************************)
(* Variable names and the regular expressions of the remapping.            *)
(***************************************************************************)
\* Python's None for an optional value; Some(x) is a value that is present.
None == <<>>

Some(x) == <<x>>

EncoderPrefix == <<"e", "n", "c", "o", "d", "e", "r", "/">>

DecoderPrefix == <<"d", "e", "c", "o", "d", "e", "r", "/">>

LayerToken == <<"l", "a", "y", "e", "r", "_">>

BlockToken == <<"b", "l", "o", "c", "k", "_">>

\* The literal of the test `"layer" not in name`.
LayerWord == <<"l", "a", "y", "e", "r">>

\* The r".*" that build_regex puts between regex_prefix and the group.
Wildcard == <<".", "*">>

\* s.find(lit) from position `from` on: the first position, 0 when none.
Find(s, lit, from) ==
  LET P == { i \in from..Len(s) : HasAt(s, i, lit) }
  IN  IF P = {} THEN 0 ELSE Min(P)

\* lit in s
Contains(s, lit) == Find(s, lit, 1) # 0

\* s.split("/")[-1]
LastSegment(s) ==
  LET slashes == { i \in 1..Len(s) : s[i] = "/" }
  IN  IF slashes = {} THEN s ELSE SubSeq(s, Max(slashes) + 1, Len(s))

\* s.replace(old, new): every occurrence of old, left to right, without
\* overlap (old is a block/layer group here, never empty).
RECURSIVE str_replace(_, _, _)
str_replace(s, old, new) ==
  LET i == Find(s, old, 1)
  IN  IF old = <<>> \/ i = 0 THEN s
      ELSE SubSeq(s, 1, i - 1) \o new
             \o str_replace(SubSeq(s, i + Len(old), Len(s)), old, new)

\* regex.split(".*")[1]: the text after the first ".*", up to the next one.
SplitWildcard(regex) ==
  LET i == Find(regex, Wildcard, 1)
      rest == SubSeq(regex, i + Len(Wildcard), Len(regex))
      j == Find(rest, Wildcard, 1)
  IN  IF j = 0 THEN rest ELSE SubSeq(rest, 1, j - 1)

\* "{:0=3d}".format(n) of n >= 0: the digits, zero-padded to three at least.
Format03d(n) ==
  LET d == FormatNat(n)
  IN  IF Len(d) >= 3 THEN d ELSE [i \in 1..(3 - Len(d)) |-> "0"] \o d

\* re.match(regex, s) is not None, for the regexes build_regex makes: a
\* literal, or a literal prefix, ".*" and a literal.  The match is anchored
\* at the start of s and may end anywhere in it.
re_match(regex, s) ==
  LET i == Find(regex, Wildcard, 1)
  IN  IF i = 0 THEN StartsWith(s, regex)
      ELSE LET pre == SubSeq(regex, 1, i - 1)
               post == SubSeq(regex, i + Len(Wildcard), Len(regex))
           IN  /\ StartsWith(s, pre)
               /\ Find(s, post, Len(pre) + 1) # 0

(***************************************************************************)
(* StructureInferer: _compute_num_blocks_and_layer.                        *)
(***************************************************************************)
\* Where token + r"(\d{3})" matches in v: the token followed by three digits
\* (whatever follows them).
TokenStarts(v, token) ==
  { i \in 1..Len(v) :
      /\ HasAt(v, i, token)
      /\ i + Len(token) + 2 <= Len(v)
      /\ \A k \in 0..2 : IsDigit(v[i + Len(token) + k]) }

\* The group (\d{3}) of the match at i.
Captured(v, token, i) == SubSeq(v, i + Len(token), i + Len(token) + 2)

\* re.findall(prefix + r".*" + token + r"(\d{3})", v), or of the pattern
\* without prefix and ".*" when prefix is empty, as the set of its captures.
\* findall searches the whole of v.  With a prefix, the first match starts at
\* the first occurrence of the prefix and the greedy ".*" carries it to the
\* last token of v, so it is the only match; without one, each token is a
\* match.
re_findall(prefix, token, v) ==
  IF prefix = <<>>
  THEN { Captured(v, token, i) : i \in TokenStarts(v, token) }
  ELSE LET p == Find(v, prefix, 1)
           after == { i \in TokenStarts(v, token) : i >= p + Len(prefix) }
       IN  IF p = 0 \/ after = {} THEN {}
           ELSE { Captured(v, token, Max(after)) }

get_max_layer_or_block_num(prefix, token, names) ==
  LET matched_nums == UNION { re_findall(prefix, token, names[i]) : i \in 1..Len(names) }
  IN  Max({ ParseDigits(num) + 1 : num \in matched_nums } \cup {-1})

_compute_num_blocks_and_layer(names) ==
  LET encoder_decoder_model ==
        \E i \in 1..Len(names) : StartsWith(names[i], EncoderPrefix)
      prefixes == IF encoder_decoder_model
                  THEN <<EncoderPrefix, DecoderPrefix>>
                  ELSE << <<>> >>
      layer_num == [k \in 1..Len(prefixes) |->
                      get_max_layer_or_block_num(prefixes[k], LayerToken, names)]
      block_num == [k \in 1..Len(prefixes) |->
                      get_max_layer_or_block_num(prefixes[k], BlockToken, names)]
  IN  [max_block_num |-> [k \in 1..Len(prefixes) |->
                            IF block_num[k] # -1 THEN Some(block_num[k]) ELSE None],
       max_layer_num |-> layer_num]

(***************************************************************************)
(* The variable names of a transformer.                                    *)
(***************************************************************************)
\* The leaf names of a layer's variables.
Kernel == <<"k", "e", "r", "n", "e", "l">>

Bias == <<"b", "i", "a", "s">>

\* A kernel one scope below the layer (as in layer_000/q/kernel).
SubKernel == <<"q", "/", "k", "e", "r", "n", "e", "l">>

GlobalStep == <<"g", "l", "o", "b", "a", "l", "_", "s", "t", "e", "p">>

\* A variable beside the layer groups of the encoder.
FinalLayerNorm == <<"e", "n", "c", "o", "d", "e", "r", "/", "f", "i", "n", "a", "l", "_", "l", "a", "y", "e", "r", "_", "n", "o", "r", "m", "/", "s", "c", "a", "l", "e">>

\* Names that do not follow the three-digit convention.
TwoDigitLayer == <<"l", "a", "y", "e", "r", "_", "1", "2", "/", "k", "e", "r", "n", "e", "l">>

FourDigitLayer == <<"l", "a", "y", "e", "r", "_", "0", "0", "1", "2", "/", "k", "e", "r", "n", "e", "l">>

\* A variable of an encoder that lives under an outer scope.
ScopedEncoderLayer == <<"t", "e", "a", "c", "h", "e", "r", "/", "e", "n", "c", "o", "d", "e", "r", "/", "l", "a", "y", "e", "r", "_", "0", "0", "2", "/", "k", "e", "r", "n", "e", "l">>

\* The block numberings of a stack: none, or 1..MaxBlocks blocks.
BlockCounts == {None} \cup { Some(n) : n \in 1..MaxBlocks }

LayerCounts == 1..MaxLayers

\* range(num_blocks or 1), from 1
BlocksOr1(num_blocks) ==
  IF num_blocks = None THEN 1
  ELSE IF num_blocks[1] = 0 THEN 1 ELSE num_blocks[1]

\* The name of the variable `leaf` of layer layer_num in block block_num.
LayerVarName(prefix, num_blocks, block_num, layer_num, leaf) ==
  prefix
    \o (IF num_blocks = None THEN <<>>
        ELSE BlockToken \o Format03d(block_num) \o <<"/">>)
    \o LayerToken \o Format03d(layer_num) \o <<"/">> \o leaf

\* The kernels of a stack, block by block, which is their alphabetical order.
StackNames(prefix, num_blocks, num_layers) ==
  [k \in 1..(BlocksOr1(num_blocks) * num_layers) |->
     LayerVarName(prefix, num_blocks, (k - 1) \div num_layers,
                  (k - 1) % num_layers, Kernel)]

\* A single-stack model, and an encoder-decoder model (decoder names sort
\* before encoder names).
LmNames(nb, nl) == StackNames(<<>>, nb, nl)

EncDecNames(nb, el, dl) ==
  StackNames(DecoderPrefix, nb, dl) \o StackNames(EncoderPrefix, nb, el)

ModelNames ==
  { LmNames(nb, nl) : nb \in BlockCounts, nl \in LayerCounts }
    \cup { EncDecNames(nb, el, dl) : nb \in BlockCounts, el \in LayerCounts,
                                     dl \in LayerCounts }

\* The sequences over S without repetition, one per subset of S.
RECURSIVE SeqOfSet(_)
SeqOfSet(S) ==
  IF S = {} THEN <<>>
  ELSE LET x == CHOOSE y \in S : TRUE IN <<x>> \o SeqOfSet(S \ {x})

\* The variables a name set may hold beside its layer stacks.
ExtraNames ==
  {GlobalStep, FinalLayerNorm, TwoDigitLayer, FourDigitLayer, ScopedEncoderLayer}

\* Name sets in which a sub-tree has no layer: a graph without layer stacks,
\* and an encoder whose decoder holds no layer group.
LayerlessNames ==
  { <<GlobalStep>>, <<FinalLayerNorm, GlobalStep>> }
    \cup { StackNames(EncoderPrefix, nb, nl) \o <<GlobalStep>> :
             nb \in BlockCounts, nl \in LayerCounts }

\* The name sets handed to _compute_num_blocks_and_layer.
InferInputs ==
  { names \o SeqOfSet(extra) : names \in ModelNames, extra \in SUBSET ExtraNames }
    \cup LayerlessNames

InitInfer ==
  /\ model_dir = <<>>
  /\ dir = {}
  /\ NoCall
  /\ CodecIdle
  /\ ContIdle
  /\ StepwiseIdle
  /\ fn_pc = "ready"
  /\ QueryIdle
  /\ var_names \in InferInputs
  /\ max_block_num = <<>>
  /\ max_layer_num = <<>>
  /\ BuildIdle
  /\ MatchIdle
  /\ RemapIdle

ComputeNumBlocksAndLayer ==
  /\ fn_pc = "ready"
  /\ fn_pc' = "done"
  /\ LET r == _compute_num_blocks_and_layer(var_names)
     IN  /\ max_block_num' = r.max_block_num
         /\ max_layer_num' = r.max_layer_num
  /\ UNCHANGED <<resolverVars, var_names, buildVars, matchVars, remapVars, queryVars>>

NextInfer == ComputeNumBlocksAndLayer

SpecInfer == InitInfer /\ [][NextInfer]_vars

(***************************************************************************)
(* CorrespondenceBuilder: _build_ckpt_to_local_var_name_mapping.           *)
(***************************************************************************)
\* x in list, of a Python list (None holds nothing).
InList(x, list) == \E i \in 1..Len(list) : list[i] = x

\* A dict keeps its keys in insertion order: a sequence of <<key, value>>.
\* Mutant: the value of a key that is present is kept.
DictSetDefault(d, k, v) ==
  IF \E i \in 1..Len(d) : d[i][1] = k THEN d ELSE Append(d, <<k, v>>)

\* d[k] = v overwrites the value of a key that is present, in place.
DictSet(d, k, v) ==
  IF \E i \in 1..Len(d) : d[i][1] = k
  THEN [i \in 1..Len(d) |-> IF d[i][1] = k THEN <<k, v>> ELSE d[i]]
  ELSE Append(d, <<k, v>>)

DictKeys(d) == { d[i][1] : i \in 1..Len(d) }

\* d[k] of a key that is present.
DictGet(d, k) == d[CHOOSE i \in 1..Len(d) : d[i][1] = k][2]

build_regex(layer_num, block_num, num_blocks, regex_prefix) ==
  LET layer_regex == LayerToken \o Format03d(layer_num)
      base_regex == IF num_blocks # None
                    THEN BlockToken \o Format03d(block_num) \o <<"/">> \o layer_regex
                    ELSE layer_regex
  IN  IF regex_prefix # None THEN regex_prefix[1] \o Wildcard \o base_regex
      ELSE base_regex

\* range(n) as the list 0, ..., n - 1 (empty when n <= 0).
range(n) == [i \in 1..n |-> i - 1]

\* The (block_num, layer_num) pairs the loops over the checkpoint visit.
CkptSlots(num_blocks, num_layers) ==
  Concat([b \in 1..BlocksOr1(num_blocks) |->
            [l \in 1..Len(range(num_layers)) |-> <<b - 1, range(num_layers)[l]>>]])

\* Mutant: the layers in the outer loop, the blocks in the inner one.
LocalSlotsLayerMajor(num_blocks, num_layers, new) ==
  LET kept == SelectSeq(range(num_layers),
                        LAMBDA l : ~(new # None /\ InList(l, new)))
  IN  Concat([l \in 1..Len(kept) |->
                [b \in 1..BlocksOr1(num_blocks) |-> <<b - 1, kept[l]>>]])

\* Mutant: every block is given the groups of block 0.
LocalSlotsOneBlock(num_blocks, num_layers, new) ==
  LET kept == SelectSeq(range(num_layers),
                        LAMBDA l : ~(new # None /\ InList(l, new)))
  IN  Concat([b \in 1..BlocksOr1(num_blocks) |->
                [l \in 1..Len(kept) |-> <<0, kept[l]>>]])

\* Mutant: the new layers are not skipped.
LocalSlotsKeepNew(num_blocks, num_layers, new) ==
  CkptSlots(num_blocks, num_layers)

\* The (block_num, layer_num) pairs the loops over the current model keep:
\* the layers of new_layers are skipped in every block.
LocalSlots(num_blocks, num_layers, new) ==
  LET kept == SelectSeq(range(num_layers),
                        LAMBDA l : ~(new # None /\ InList(l, new)))
  IN  Concat([b \in 1..BlocksOr1(num_blocks) |->
                [l \in 1..Len(kept) |-> <<b - 1, kept[l]>>]])

\* The regexes of a list of slots.
SlotRegexes(slots, num_blocks, regex_prefix) ==
  [k \in 1..Len(slots) |->
     build_regex(slots[k][2], slots[k][1], num_blocks, regex_prefix)]

\* The dict filled from zip(keys, values), of the first n pairs.
RECURSIVE ZipDict(_, _, _)
ZipDict(keys, values, n) ==
  IF n = 0 THEN <<>>
  ELSE DictSet(ZipDict(keys, values, n - 1), keys[n], values[n])

\* Mutant: no length check, zip stops at the shorter list.
BuildTruncating(ckpt_num_blocks, ckpt_num_layers, local_num_blocks, local_num_layers, new, regex_prefix) ==
  LET all_ckpt_name_regexes ==
        SlotRegexes(CkptSlots(ckpt_num_blocks, ckpt_num_layers),
                    ckpt_num_blocks, regex_prefix)
      all_local_name_regexes ==
        SlotRegexes(LocalSlots(local_num_blocks, local_num_layers, new),
                    local_num_blocks, regex_prefix)
  IN  [error |-> "none",
       mapping |-> ZipDict(all_ckpt_name_regexes, all_local_name_regexes,
                           Min({Len(all_ckpt_name_regexes),
                                Len(all_local_name_regexes)}))]

_build_ckpt_to_local_var_name_mapping(ckpt_num_blocks, ckpt_num_layers, local_num_blocks, local_num_layers, new, regex_prefix) ==
  LET all_ckpt_name_regexes ==
        SlotRegexes(CkptSlots(ckpt_num_blocks, ckpt_num_layers),
                    ckpt_num_blocks, regex_prefix)
      all_local_name_regexes ==
        SlotRegexes(LocalSlots(local_num_blocks, local_num_layers, new),
                    local_num_blocks, regex_prefix)
  IN  IF Len(all_ckpt_name_regexes) # Len(all_local_name_regexes)
      THEN [error |-> "ValueError", mapping |-> <<>>]
      ELSE [error |-> "none",
            mapping |-> ZipDict(all_ckpt_name_regexes, all_local_name_regexes,
                                Len(all_ckpt_name_regexes))]

\* The layer counts the inferer can return: -1 when no name has a layer token.
InferredLayerCounts == {-1} \cup LayerCounts

\* The new-layer lists of one sub-tree: None, or layer numbers.
NewLayerLists == { SeqOfSet(S) : S \in SUBSET (0..(MaxLayers - 1)) }

RegexPrefixes == {None, Some(EncoderPrefix), Some(DecoderPrefix)}

BuildInputs ==
  [ckpt_num_blocks : BlockCounts, ckpt_num_layers : InferredLayerCounts,
   local_num_blocks : BlockCounts, local_num_layers : InferredLayerCounts,
   new_layers : NewLayerLists, regex_prefix : RegexPrefixes]

InitBuild ==
  /\ model_dir = <<>>
  /\ dir = {}
  /\ NoCall
  /\ CodecIdle
  /\ ContIdle
  /\ StepwiseIdle
  /\ fn_pc = "ready"
  /\ QueryIdle
  /\ InferIdle
  /\ build_args \in BuildInputs
  /\ build_mapping = <<>>
  /\ build_error = "none"
  /\ MatchIdle
  /\ RemapIdle

BuildMapping ==
  /\ fn_pc = "ready"
  /\ fn_pc' = "done"
  /\ LET r == _build_ckpt_to_local_var_name_mapping(
                build_args.ckpt_num_blocks, build_args.ckpt_num_layers,
                build_args.local_num_blocks, build_args.local_num_layers,
                build_args.new_layers, build_args.regex_prefix)
     IN  /\ build_error' = r.error
         /\ build_mapping' = r.mapping
  /\ UNCHANGED <<resolverVars, inferVars, build_args, matchVars, remapVars,
                 queryVars>>

NextBuild == BuildMapping

SpecBuild == InitBuild /\ [][NextBuild]_vars

(***************************************************************************)
(* VariableMatcher: _match_ckpt_to_local_var_name.                         *)
(***************************************************************************)
\* Mutant: a pair matches as soon as an entry's two regexes match the names.
MatchGroupOnly(ckpt_var_name, local_var_name, mapping) ==
  IF ~Contains(ckpt_var_name, LayerWord) \/ ~Contains(local_var_name, LayerWord)
  THEN ckpt_var_name = local_var_name
  ELSE \E k \in 1..Len(mapping) :
         /\ re_match(mapping[k][1], ckpt_var_name)
         /\ re_match(mapping[k][2], local_var_name)

\* Mutant: after the leaf guard, an entry whose two regexes match the names
\* is enough; the name is not rebuilt.
MatchLeafAndGroup(ckpt_var_name, local_var_name, mapping) ==
  IF ~Contains(ckpt_var_name, LayerWord) \/ ~Contains(local_var_name, LayerWord)
  THEN ckpt_var_name = local_var_name
  ELSE IF LastSegment(ckpt_var_name) # LastSegment(local_var_name)
  THEN FALSE
  ELSE \E k \in 1..Len(mapping) :
         /\ re_match(mapping[k][1], ckpt_var_name)
         /\ re_match(mapping[k][2], local_var_name)

_match_ckpt_to_local_var_name(ckpt_var_name, local_var_name, mapping) ==
  IF ~Contains(ckpt_var_name, LayerWord) \/ ~Contains(local_var_name, LayerWord)
  THEN ckpt_var_name = local_var_name
  ELSE IF LastSegment(ckpt_var_name) # LastSegment(local_var_name)
  THEN FALSE
  ELSE \E k \in 1..Len(mapping) :
         LET ckpt_regex == mapping[k][1]
             var_regex == mapping[k][2]
         IN  /\ re_match(ckpt_regex, ckpt_var_name)
             /\ re_match(var_regex, local_var_name)
             /\ LET ckpt_group == IF Contains(ckpt_regex, Wildcard)
                                  THEN SplitWildcard(ckpt_regex) ELSE ckpt_regex
                    var_group == IF Contains(var_regex, Wildcard)
                                 THEN SplitWildcard(var_regex) ELSE var_regex
                IN  str_replace(ckpt_var_name, ckpt_group, var_group)
                      = local_var_name

\* The variables of a stack: in each layer a kernel, a bias and a kernel one
\* scope below; and two variables beside the stack.
VarNamesOf(regex_prefix, num_blocks, num_layers) ==
  { LayerVarName(IF regex_prefix = None THEN <<>> ELSE regex_prefix[1],
                 num_blocks, b, l, leaf) :
      b \in 0..(BlocksOr1(num_blocks) - 1), l \in 0..(num_layers - 1),
      leaf \in {Kernel, Bias, SubKernel} }
    \cup {GlobalStep, FinalLayerNorm}

\* A correspondence that was built, with a variable of its checkpoint and a
\* variable of its current model.
MatchInputsOf(a) ==
  LET r == _build_ckpt_to_local_var_name_mapping(
             a.ckpt_num_blocks, a.ckpt_num_layers, a.local_num_blocks,
             a.local_num_layers, a.new_layers, a.regex_prefix)
  IN  IF r.error # "none" THEN {}
      ELSE [ckpt_var_name :
              VarNamesOf(a.regex_prefix, a.ckpt_num_blocks, a.ckpt_num_layers),
            local_var_name :
              VarNamesOf(a.regex_prefix, a.local_num_blocks, a.local_num_layers),
            mapping : {r.mapping}]

MatchInputs == UNION { MatchInputsOf(a) : a \in BuildInputs }

InitMatch ==
  /\ model_dir = <<>>
  /\ dir = {}
  /\ NoCall
  /\ CodecIdle
  /\ ContIdle
  /\ StepwiseIdle
  /\ fn_pc = "ready"
  /\ QueryIdle
  /\ InferIdle
  /\ BuildIdle
  /\ match_args \in MatchInputs
  /\ match_result = FALSE
  /\ RemapIdle

MatchNames ==
  /\ fn_pc = "ready"
  /\ fn_pc' = "done"
  /\ match_result' = _match_ckpt_to_local_var_name(
                       match_args.ckpt_var_name, match_args.local_var_name,
                       match_args.mapping)
  /\ UNCHANGED <<resolverVars, inferVars, buildVars, match_args, remapVars,
                 queryVars>>

NextMatch == MatchNames

SpecMatch == InitMatch /\ [][NextMatch]_vars

(***************************************************************************)
(* RemappingIndex: flexible_ckpt_init_mapping.                             *)
(***************************************************************************)
\* The regex mappings of the sub-trees, or the error raised on the way, from
\* the counts of the checkpoint and of the current model.  The checkpoint's
\* counts decide between encoder-decoder and LM.
\* Mutant: a decoder whose counts differ is left out instead of raising.
BuildMappingsEncoderFirst(ckpt, local, new) ==
  LET enc == _build_ckpt_to_local_var_name_mapping(
               ckpt.max_block_num[1], ckpt.max_layer_num[1],
               local.max_block_num[1], local.max_layer_num[1],
               IF new # None THEN new[1] ELSE None,
               IF Len(ckpt.max_block_num) = 2 THEN Some(EncoderPrefix) ELSE None)
  IN  IF enc.error # "none" THEN [error |-> enc.error, mappings |-> <<>>]
      ELSE [error |-> "none", mappings |-> <<enc.mapping>>]

BuildMappings(ckpt, local, new) ==
  IF Len(ckpt.max_block_num) = 2
  THEN IF new # None /\ Len(new) # 2
       THEN [error |-> "ValueError", mappings |-> <<>>]
       ELSE LET new_enc_layers == IF new # None THEN new[1] ELSE None
                new_dec_layers == IF new # None THEN new[2] ELSE None
                enc_mapping == _build_ckpt_to_local_var_name_mapping(
                                 ckpt.max_block_num[1], ckpt.max_layer_num[1],
                                 local.max_block_num[1], local.max_layer_num[1],
                                 new_enc_layers, Some(EncoderPrefix))
            IN  IF enc_mapping.error # "none"
                THEN [error |-> enc_mapping.error, mappings |-> <<>>]
                ELSE IF Len(local.max_block_num) < 2
                THEN [error |-> "IndexError", mappings |-> <<>>]
                ELSE LET dec_mapping ==
                           _build_ckpt_to_local_var_name_mapping(
                             ckpt.max_block_num[2], ckpt.max_layer_num[2],
                             local.max_block_num[2], local.max_layer_num[2],
                             new_dec_layers, Some(DecoderPrefix))
                     IN  IF dec_mapping.error # "none"
                         THEN [error |-> dec_mapping.error, mappings |-> <<>>]
                         ELSE [error |-> "none",
                               mappings |-> <<enc_mapping.mapping,
                                              dec_mapping.mapping>>]
  ELSE LET new_lm_layers == IF new # None THEN new[1] ELSE None
           lm_mapping == _build_ckpt_to_local_var_name_mapping(
                           ckpt.max_block_num[1], ckpt.max_layer_num[1],
                           local.max_block_num[1], local.max_layer_num[1],
                           new_lm_layers, None)
       IN  IF lm_mapping.error # "none"
           THEN [error |-> lm_mapping.error, mappings |-> <<>>]
           ELSE [error |-> "none", mappings |-> <<lm_mapping.mapping>>]

\* The innermost loop from mapping k on: d after `for mapping in mappings`.
\* (In the three loops the test on Len(d) makes TLC evaluate the dict of one
\* turn before the next turn starts, instead of nesting the turns.)
RECURSIVE MappingLoop(_, _, _, _, _)
MappingLoop(d, ckpt_var_name, local_var_name, maps, k) ==
  IF k > Len(maps) \/ Len(d) < 0 THEN d
  ELSE MappingLoop(
         IF _match_ckpt_to_local_var_name(ckpt_var_name, local_var_name, maps[k])
         THEN DictSet(d, local_var_name, ckpt_var_name) ELSE d,
         ckpt_var_name, local_var_name, maps, k + 1)

\* The middle loop from name j on: d after `for local_var_name in local_var_names`.
RECURSIVE LocalLoop(_, _, _, _, _)
LocalLoop(d, ckpt_var_name, local_names, maps, j) ==
  IF j > Len(local_names) \/ Len(d) < 0 THEN d
  ELSE LocalLoop(MappingLoop(d, ckpt_var_name, local_names[j], maps, 1),
                 ckpt_var_name, local_names, maps, j + 1)

\* The outer loop from name i on: d after `for ckpt_var_name in ckpt_var_names`.
RECURSIVE CkptLoop(_, _, _, _, _)
CkptLoop(d, ckpt_names, local_names, maps, i) ==
  IF i > Len(ckpt_names) \/ Len(d) < 0 THEN d
  ELSE CkptLoop(LocalLoop(d, ckpt_names[i], local_names, maps, 1),
                ckpt_names, local_names, maps, i + 1)

\* filter_fn(var_name) of the function returned with return_mapping_fn False.
filter_fn(var_name) == var_name \in DictKeys(graph_var_to_ckpt_var)

\* Mutant: a dict.get that hands back the name itself when the key is missing.
MappingFnDefault(var_name) ==
  IF var_name \in DictKeys(graph_var_to_ckpt_var)
  THEN [error |-> "none", value |-> DictGet(graph_var_to_ckpt_var, var_name)]
  ELSE [error |-> "none", value |-> var_name]

\* mapping_fn(var_name) of the function returned with return_mapping_fn True:
\* graph_var_to_ckpt_var[var_name], a KeyError when the key is missing.
mapping_fn(var_name) ==
  IF var_name \in DictKeys(graph_var_to_ckpt_var)
  THEN [error |-> "none", value |-> DictGet(graph_var_to_ckpt_var, var_name)]
  ELSE [error |-> "KeyError", value |-> <<>>]

\* global_step at its place in the alphabetical listing of a model's names.
WithGlobalStep(names) ==
  IF StartsWith(names[1], LayerToken) THEN <<GlobalStep>> \o names
  ELSE names \o <<GlobalStep>>

\* The models whose variables are listed: LMs, and encoder-decoders with as
\* many layers in both stacks.
RemapModels ==
  { WithGlobalStep(LmNames(nb, nl)) : nb \in BlockCounts, nl \in LayerCounts }
    \cup { WithGlobalStep(EncDecNames(nb, nl, nl)) :
             nb \in BlockCounts, nl \in LayerCounts }

\* new_layers: None, or one list per sub-tree, each with one layer at most;
\* the decoder gets the encoder's new layer or none.
SingleLayerLists == { <<>> } \cup { <<l>> : l \in 0..(MaxLayers - 1) }

NewLayersArgs ==
  {None} \cup { <<lm>> : lm \in SingleLayerLists }
         \cup { <<enc, <<>> >> : enc \in SingleLayerLists }
         \cup { <<enc, enc>> : enc \in SingleLayerLists }

\* A checkpoint whose layer holds a sub-scope that is numbered like a layer,
\* and a model with one more layer in front.
NestedCkptNames ==
  << <<"l", "a", "y", "e", "r", "_", "0", "0", "0", "/", "l", "a", "y", "e", "r", "_", "0", "0", "0", "/", "k", "e", "r", "n", "e", "l">>,
     <<"l", "a", "y", "e", "r", "_", "0", "0", "0", "/", "l", "a", "y", "e", "r", "_", "0", "0", "1", "/", "k", "e", "r", "n", "e", "l">> >>

NestedLocalNames ==
  << <<"l", "a", "y", "e", "r", "_", "0", "0", "1", "/", "l", "a", "y", "e", "r", "_", "0", "0", "1", "/", "k", "e", "r", "n", "e", "l">>,
     <<"l", "a", "y", "e", "r", "_", "0", "0", "2", "/", "k", "e", "r", "n", "e", "l">> >>

\* Models restored from a checkpoint of their own architecture: a single
\* stack under the scope "decoder/", and an encoder-decoder with the
\* encoder's final layer norm.
ScopedModels ==
  { StackNames(DecoderPrefix, nb, nl) \o <<GlobalStep>> :
      nb \in BlockCounts, nl \in LayerCounts }
    \cup { EncDecNames(nb, nl, nl) \o <<FinalLayerNorm, GlobalStep>> :
             nb \in BlockCounts, nl \in LayerCounts }

InitRemap ==
  /\ model_dir = <<>>
  /\ dir = {}
  /\ NoCall
  /\ CodecIdle
  /\ ContIdle
  /\ StepwiseIdle
  /\ fn_pc = "ready"
  /\ QueryIdle
  /\ InferIdle
  /\ BuildIdle
  /\ MatchIdle
  /\ \/ /\ ckpt_var_names \in RemapModels
        /\ local_var_names \in RemapModels
        /\ new_layers \in NewLayersArgs
     \/ /\ ckpt_var_names = NestedCkptNames
        /\ local_var_names = NestedLocalNames
        /\ new_layers = << <<0>> >>
     \/ /\ ckpt_var_names \in ScopedModels
        /\ local_var_names = ckpt_var_names
        /\ new_layers = None
  /\ ckpt_counts = <<>>
  /\ local_counts = <<>>
  /\ mappings = <<>>
  /\ graph_var_to_ckpt_var = <<>>
  /\ remap_error = "none"

\* flexible_ckpt_init_mapping as a whole: the counts of both name lists, the
\* regex mappings (or the error they raise), then the dict.
FlexibleCkptInitMapping ==
  /\ fn_pc = "ready"
  /\ fn_pc' = "done"
  /\ ckpt_counts' = _compute_num_blocks_and_layer(ckpt_var_names)
  /\ local_counts' = _compute_num_blocks_and_layer(local_var_names)
  /\ LET built == BuildMappings(ckpt_counts', local_counts', new_layers)
     IN  /\ remap_error' = built.error
         /\ mappings' = built.mappings
  /\ graph_var_to_ckpt_var' =
       IF remap_error' # "none" THEN <<>>
       ELSE CkptLoop(<<>>, ckpt_var_names, local_var_names, mappings', 1)
  /\ UNCHANGED <<resolverVars, inferVars, buildVars, matchVars,
                 ckpt_var_names, local_var_names, new_layers, queryVars>>

\* The names the restore code asks about: the variables of the graph, and
\* the checkpoint's (some of which the graph does not have).
QueryNames ==
  { local_var_names[i] : i \in 1..Len(local_var_names) }
    \cup { ckpt_var_names[i] : i \in 1..Len(ckpt_var_names) }

\* A call of the returned function on var_name.  Lines 447-487 do not read
\* return_mapping_fn, so the function built with it True and the one built
\* with it False, from the same checkpoint and graph, close over equal
\* dicts; the action records what each of them returns.  Neither is there
\* to be called when flexible_ckpt_init_mapping raised.
Query(var_name) ==
  /\ fn_pc = "done"
  /\ remap_error = "none"
  /\ query_name' = var_name
  /\ query_filter' = filter_fn(var_name)
  /\ query_mapping' = mapping_fn(var_name)
  /\ UNCHANGED <<resolverVars, fn_pc, inferVars, buildVars, matchVars, remapVars>>

NextRemap ==
  \/ FlexibleCkptInitMapping
  \/ \E var_name \in QueryNames : Query(var_name)

SpecRemap == InitRemap /\ [][NextRemap]_vars

(***************************************************************************)
(* Properties.                                                             *)
(***************************************************************************)
Range(q) == { q[i] : i \in 1..Len(q) }

\* The steps recovered from the returned paths, in their order.
ResultSteps == [i \in 1..Len(result) |-> get_step_from_checkpoint_path(result[i])]

\* Every returned path is the identifier of the step it carries.
ResultWellFormed == \A i \in 1..Len(result) : result[i] = _get_checkpoint_path(ResultSteps[i])

StrictlyAscending(q) == \A i, j \in 1..Len(q) : i < j => q[i] < q[j]

\* c is a saved step at least as near to t as every saved step.
IsClosestTo(c, t) ==
  /\ c \in SavedSteps
  /\ \A x \in SavedSteps : Abs(t - c) <= Abs(t - x)

ClosestCall == sel_kind \in {"int", "list"} /\ find_closest
ExactCall == sel_kind \in {"int", "list"} /\ ~find_closest

\* C1: parsing the identifier built for a step s under any base directory
\* gives back s.
C1_RoundTrip == codec_step # NoStep => codec_parsed = codec_step

\* A three-digit step under a base directory that itself looks like an identifier.
C1_Witness ==
  /\ codec_step >= 100
  /\ codec_parsed = codec_step
  /\ IsCheckpointPath(model_dir)

\* C2: closest mode with a single integer t over a non-empty set of saved
\* steps returns exactly one identifier, of a saved step no farther from t
\* than any other saved step, and of t itself when t is saved.
C2_ClosestInt ==
  (sel_kind = "int" /\ find_closest /\ SavedSteps # {}) =>
     /\ outcome = "returned"
     /\ Len(result) = 1
     /\ ResultWellFormed
     /\ IsClosestTo(ResultSteps[1], steps_req[1])
     /\ (steps_req[1] \in SavedSteps => ResultSteps[1] = steps_req[1])

\* The requested step is not saved and the nearest saved step lies above it.
C2_Witness ==
  /\ sel_kind = "int" /\ find_closest /\ outcome = "returned"
  /\ Cardinality(SavedSteps) >= 2
  /\ steps_req[1] \notin SavedSteps
  /\ ResultSteps[1] > steps_req[1]

\* C3: closest mode is a function of the requested step and the saved steps
\* alone: resolving the same integer again over the same directory returns
\* the same identifier.
C3_ClosestDeterministic ==
  [][(/\ sel_kind = "int" /\ find_closest /\ outcome = "returned"
      /\ sel_kind' = "int" /\ find_closest' /\ outcome' = "returned"
      /\ steps_req' = steps_req
      /\ dir' = dir)
     => result' = result]_vars

C5_ClosestList ==
  (sel_kind = "list" /\ find_closest /\ steps_req # <<>> /\ SavedSteps # {}) =>
     /\ outcome = "returned"
     /\ ResultWellFormed
     /\ StrictlyAscending(ResultSteps)
     /\ \E f \in [Range(steps_req) -> SavedSteps] :
          /\ \A t \in Range(steps_req) : IsClosestTo(f[t], t)
          /\ Range(ResultSteps) = { f[t] : t \in Range(steps_req) }

\* Two requested steps given in descending order, resolved to two checkpoints.
C5_Witness ==
  /\ sel_kind = "list" /\ find_closest /\ outcome = "returned"
  /\ Len(steps_req) = 2
  /\ steps_req[1] > steps_req[2]
  /\ Len(result) = 2

\* The requested steps that have a checkpoint, in request order.
PresentRequests == SelectSeq(steps_req, LAMBDA t : t \in SavedSteps)

\* C6 as stated: exact mode with a list raises when an element has no
\* checkpoint and otherwise returns the identifiers without repeats in
\* ascending step order.
C6_ExactListSortedStrict ==
  (sel_kind = "list" /\ ~find_closest /\ steps_req # <<>>) =>
     IF Range(steps_req) \subseteq SavedSteps
     THEN /\ outcome = "returned"
          /\ StrictlyAscending(ResultSteps)
          /\ Range(ResultSteps) = Range(steps_req)
     ELSE outcome = "ValueError"

\* C6 amended: exact mode with a list returns the identifier of every
\* requested step that has a checkpoint, in request order with repeats
\* kept, drops the others, and raises only when none has a checkpoint.
C6_ExactListAsRequested ==
  (sel_kind = "list" /\ ~find_closest) =>
     IF PresentRequests = <<>>
     THEN outcome = "ValueError" /\ result = <<>>
     ELSE /\ outcome = "returned"
          /\ ResultWellFormed
          /\ ResultSteps = PresentRequests

\* A list in descending order, both steps saved, returned in that order.
C6_Witness ==
  /\ sel_kind = "list" /\ ~find_closest /\ outcome = "returned"
  /\ Len(steps_req) = 2
  /\ steps_req[1] > steps_req[2]
  /\ ResultSteps = steps_req

\* C7: "all" mode returns one identifier per saved step above the floor, in
\* strictly ascending step order (and does return when every model.ckpt*
\* file carries a step).
C7_AllAboveFloor ==
  sel_kind = "all" =>
     /\ outcome = "returned" =>
          /\ ResultWellFormed
          /\ StrictlyAscending(ResultSteps)
          /\ Range(ResultSteps) = { s \in SavedSteps : s > skip_until }
     /\ UnnumberedCkptFile \notin dir => outcome = "returned"

\* Steps 0, 1, 2 saved, floor 1: the floor step itself is left out.
C7_Witness ==
  /\ sel_kind = "all" /\ outcome = "returned"
  /\ skip_until = 1
  /\ {0, 1, 2} \subseteq SavedSteps
  /\ ResultSteps[1] = 2

\* C8: "all" mode with the default floor returns every saved checkpoint,
\* the one written at step 0 included.
C8_AllDefaultReturnsEvery ==
  (sel_kind = "all" /\ skip_until = 0 /\ outcome = "returned") =>
     Range(ResultSteps) = SavedSteps

\* C9: a file that carries no step is skipped: with such a file in the
\* directory, "all" mode and closest mode raise nothing and return what the
\* saved steps alone determine.
C9_MalformedSkipped ==
  (dir \cap StrayFiles # {}) =>
     /\ sel_kind = "all" =>
          /\ outcome = "returned"
          /\ Range(ResultSteps) = { s \in SavedSteps : s > skip_until }
     /\ (sel_kind = "int" /\ find_closest /\ SavedSteps # {}) =>
          /\ outcome = "returned"
          /\ IsClosestTo(ResultSteps[1], steps_req[1])

\* C10 as stated: closest mode and list-exact mode never return an
\* identifier whose step is <= skip_until.
C10_FloorInEveryMode ==
  ((ClosestCall \/ (sel_kind = "list" /\ ~find_closest)) /\ outcome = "returned") =>
     \A i \in 1..Len(result) : ResultSteps[i] > skip_until

\* C10 amended: the floor is applied in "all" mode only; closest mode and
\* exact mode ignore skip_until, so a requested step that has a checkpoint
\* is returned also when it is <= skip_until.
C10_FloorOnlyInAll ==
  /\ (sel_kind = "all" /\ outcome = "returned") =>
        \A i \in 1..Len(result) : ResultSteps[i] > skip_until
  /\ (ClosestCall \/ ExactCall) =>
        \A t \in Range(steps_req) :
          t \in SavedSteps =>
            outcome = "returned" /\ _get_checkpoint_path(t) \in Range(result)

\* A closest-mode list whose result holds a step at or below the floor.
C10_Witness ==
  /\ sel_kind = "list" /\ find_closest /\ outcome = "returned"
  /\ skip_until = 1
  /\ \E i \in 1..Len(result) : ResultSteps[i] <= skip_until

\* The steps of the continuous sequence's paths.
StepsOf(paths) == [i \in 1..Len(paths) |-> get_step_from_checkpoint_path(paths[i])]

ContinuousWithCeiling == sel_kind = "cont" /\ stop_after # NoStep

\* The sequence ends exactly at the first observed path whose step reaches
\* the ceiling.
StopsAtFirstReaching ==
  /\ \A i \in 1..(Len(observed) - 1) : StepsOf(observed)[i] < stop_after
  /\ cont_done <=> (observed # <<>> /\ StepsOf(observed)[Len(observed)] >= stop_after)

\* C11 as stated: with a ceiling the sequence stops right after the first
\* observed path whose step is >= the ceiling, and that path is yielded as
\* the last element, also when its step is above the ceiling.
C11_StopYieldsReaching ==
  ContinuousWithCeiling =>
     /\ StopsAtFirstReaching
     /\ cont_done => (yielded # <<>> /\ yielded[Len(yielded)] = observed[Len(observed)])

\* C11 amended: the sequence stops at the first observed path whose step is
\* >= the ceiling; that path is yielded, as the last element, only when its
\* step equals the ceiling, and is dropped when its step is above it; every
\* path observed before it is yielded and nothing after it.
C11_StopYieldsOnlyCeiling ==
  ContinuousWithCeiling =>
     /\ StopsAtFirstReaching
     /\ yielded = SelectSeq(observed,
                            LAMBDA p : get_step_from_checkpoint_path(p) <= stop_after)
     /\ cont_done =>
          IF StepsOf(observed)[Len(observed)] = stop_after
          THEN yielded = observed
          ELSE yielded = SubSeq(observed, 1, Len(observed) - 1)

\* The sequence ended on an observed path whose step is above the ceiling.
C11_Witness ==
  /\ ContinuousWithCeiling
  /\ cont_done
  /\ observed # <<>>
  /\ StepsOf(observed)[Len(observed)] > stop_after

\* C12: every path yielded in continuous mode has step > skip_until; with a
\* ceiling it also has step <= stop_after, and a path whose step equals the
\* ceiling is yielded before the sequence ends on it.
C12_YieldBounds ==
  sel_kind = "cont" =>
     /\ \A i \in 1..Len(yielded) : StepsOf(yielded)[i] > skip_until
     /\ stop_after # NoStep =>
          /\ \A i \in 1..Len(yielded) : StepsOf(yielded)[i] <= stop_after
          /\ (cont_done /\ get_step_from_checkpoint_path(iter_last) = stop_after) =>
               (yielded # <<>> /\ yielded[Len(yielded)] = iter_last)

\* The sequence ended on the ceiling step after a floor-passing path below it.
C12_Witness ==
  /\ ContinuousWithCeiling
  /\ cont_done
  /\ Len(yielded) = 2
  /\ StepsOf(yielded)[2] = stop_after
  /\ skip_until = 0

InferDone == fn_pc = "done" /\ var_names # <<>>

\* The prefixes of the sub-trees of the inferred structure.
SubTreePrefixes ==
  IF Len(max_layer_num) = 2 THEN <<EncoderPrefix, DecoderPrefix>> ELSE << <<>> >>

\* The token at position i of v is followed by exactly three digits.
ExactWidth(v, token, i) ==
  LET after == i + Len(token) + 3
  IN  after > Len(v) \/ ~IsDigit(v[after])

\* (Greatest index of a token among the names of var_names that count for the
\* sub-tree) + 1, -1 when there is none.  rooted: a name counts when it
\* begins with the prefix, otherwise when the token follows the prefix
\* anywhere in it; exact: only tokens with exactly three digits count.
ExpectedCount(prefix, token, rooted, exact) ==
  LET counts(v) == IF rooted THEN StartsWith(v, prefix)
                   ELSE prefix = <<>> \/ Find(v, prefix, 1) # 0
      from(v) == IF prefix = <<>> THEN 1 ELSE Find(v, prefix, 1) + Len(prefix)
      indexes(v) == { ParseDigits(Captured(v, token, i)) :
                        i \in { j \in TokenStarts(v, token) :
                                  /\ j >= from(v)
                                  /\ exact => ExactWidth(v, token, j) } }
      idx == UNION { indexes(var_names[n]) :
                       n \in { k \in 1..Len(var_names) : counts(var_names[k]) } }
  IN  IF idx = {} THEN -1 ELSE Max(idx) + 1

ExpectedStructure(rooted, exact) ==
  /\ Len(max_layer_num) = Len(max_block_num)
  /\ Len(max_layer_num) =
       (IF \E i \in 1..Len(var_names) : StartsWith(var_names[i], EncoderPrefix)
        THEN 2 ELSE 1)
  /\ \A k \in 1..Len(max_layer_num) :
       LET layers == ExpectedCount(SubTreePrefixes[k], LayerToken, rooted, exact)
           blocks == ExpectedCount(SubTreePrefixes[k], BlockToken, rooted, exact)
       IN  /\ max_layer_num[k] = layers
           /\ max_block_num[k] = (IF blocks = -1 THEN None ELSE Some(blocks))

\* C13: the name set is encoder-decoder iff a name begins with "encoder/";
\* per sub-tree num_blocks is the greatest block index + 1 or None and
\* num_layers the greatest layer index + 1, counted over the names rooted
\* under the sub-tree's prefix only.
C13_CountsRootedNames == InferDone => ExpectedStructure(TRUE, FALSE)

\* C14: a block_/layer_ token followed by fewer or more than three digits
\* contributes nothing to the inferred counts.
C14_ExactThreeDigits == InferDone => ExpectedStructure(FALSE, TRUE)

BuildDone == fn_pc = "done" /\ build_args # <<>>

\* The source slots: every (block, layer) of the checkpoint's stack.
SourceSlotSet ==
  (0..(BlocksOr1(build_args.ckpt_num_blocks) - 1))
     \X (0..(build_args.ckpt_num_layers - 1))

\* The target slots that survive: those whose layer is not a new layer.
SurvivingSlotSet ==
  { s \in (0..(BlocksOr1(build_args.local_num_blocks) - 1))
            \X (0..(build_args.local_num_layers - 1)) :
      \A i \in 1..Len(build_args.new_layers) : build_args.new_layers[i] # s[2] }

\* Row-major order: blocks first, layers within a block.
RowMajorBefore(s, t) == s[1] < t[1] \/ (s[1] = t[1] /\ s[2] < t[2])

\* The k-th slot of S in row-major order.
KthSlot(S, k) ==
  CHOOSE s \in S : Cardinality({ t \in S : RowMajorBefore(t, s) }) = k - 1

\* C15: the k-th source slot (row-major) is paired with the k-th surviving
\* target slot (row-major, the new layers removed in every block); the pairing
\* has one entry per source slot, source_blocks * source_layers of them.
C15_PositionalPairing ==
  (BuildDone /\ build_error = "none") =>
     /\ Len(build_mapping) = Cardinality(SourceSlotSet)
     /\ build_args.ckpt_num_layers >= 1 =>
          Len(build_mapping) = BlocksOr1(build_args.ckpt_num_blocks)
                                 * build_args.ckpt_num_layers
     /\ \A k \in 1..Len(build_mapping) :
          LET s == KthSlot(SourceSlotSet, k)
              t == KthSlot(SurvivingSlotSet, k)
          IN  build_mapping[k] =
                <<build_regex(s[2], s[1], build_args.ckpt_num_blocks,
                              build_args.regex_prefix),
                  build_regex(t[2], t[1], build_args.local_num_blocks,
                              build_args.regex_prefix)>>

\* A correspondence over two blocks in which a new layer shifts the numbering.
C15_Witness ==
  /\ BuildDone
  /\ build_error = "none"
  /\ Len(build_mapping) >= 2
  /\ BlocksOr1(build_args.local_num_blocks) >= 2
  /\ InList(0, build_args.new_layers)
  /\ build_args.local_num_layers >= 2

\* C16: ValueError is raised exactly when the number of source slots differs
\* from the number of surviving target slots, and then nothing is returned.
C16_MismatchIsError ==
  BuildDone =>
     /\ build_error = "ValueError"
          <=> Cardinality(SourceSlotSet) # Cardinality(SurvivingSlotSet)
     /\ build_error = "ValueError" => build_mapping = <<>>
     /\ build_error \in {"none", "ValueError"}

\* The error is raised where only the removal of a new layer makes the counts differ.
C16_Witness ==
  /\ BuildDone
  /\ build_error = "ValueError"
  /\ build_args.ckpt_num_blocks = build_args.local_num_blocks
  /\ build_args.ckpt_num_layers = build_args.local_num_layers

MatchDone == fn_pc = "done" /\ match_args # <<>>

\* The name has a path segment that is a layer token: it lies in a layer group.
InLayerGroup(v) ==
  \E i \in 1..Len(v) : HasAt(v, i, LayerToken) /\ (i = 1 \/ v[i - 1] = "/")

\* C17: for two names without a layer path segment (global_step,
\* final_layer_norm/scale), the pair matches iff the names are identical,
\* whatever the correspondence.
C17_IdentityOutsideLayers ==
  (/\ MatchDone
   /\ ~InLayerGroup(match_args.ckpt_var_name)
   /\ ~InLayerGroup(match_args.local_var_name))
     => (match_result <=> match_args.ckpt_var_name = match_args.local_var_name)

\* C18: two names of layer groups whose final path segments differ never
\* match, whatever the correspondence.
C18_LeafGuard ==
  (/\ MatchDone
   /\ InLayerGroup(match_args.ckpt_var_name)
   /\ InLayerGroup(match_args.local_var_name)
   /\ LastSegment(match_args.ckpt_var_name) # LastSegment(match_args.local_var_name))
     => ~match_result

\* A kernel and a bias of two layers that an entry of the correspondence pairs.
C18_Witness ==
  /\ MatchDone
  /\ ~match_result
  /\ LastSegment(match_args.ckpt_var_name) = Kernel
  /\ LastSegment(match_args.local_var_name) = Bias
  /\ \E k \in 1..Len(match_args.mapping) :
       /\ re_match(match_args.mapping[k][1], match_args.ckpt_var_name)
       /\ re_match(match_args.mapping[k][2], match_args.local_var_name)

RemapBuilt == fn_pc = "done" /\ ckpt_var_names # <<>> /\ remap_error = "none"

\* The new layers given for the sub-tree of the target name t.
NewLayersFor(t) ==
  IF new_layers = None THEN <<>>
  ELSE IF StartsWith(t, DecoderPrefix)
       THEN (IF Len(new_layers) >= 2 THEN new_layers[2] ELSE <<>>)
       ELSE new_layers[1]

\* The target name t lies under a layer that is listed as new.
UnderNewLayer(t) ==
  \E i \in TokenStarts(t, LayerToken) :
     /\ i = 1 \/ t[i - 1] = "/"
     /\ InList(ParseDigits(Captured(t, LayerToken, i)), NewLayersFor(t))

\* C19: no variable of the current model under a new layer is restorable:
\* filter_fn is false for it and it is not a key of the mapping.
C19_NewLayersUnmapped ==
  RemapBuilt =>
     \A j \in 1..Len(local_var_names) :
        UnderNewLayer(local_var_names[j]) =>
           /\ ~filter_fn(local_var_names[j])
           /\ \A n \in 1..Len(graph_var_to_ckpt_var) :
                graph_var_to_ckpt_var[n][1] # local_var_names[j]

\* An index that restores a layer and leaves a new layer alone.
C19_Witness ==
  /\ RemapBuilt
  /\ \E j \in 1..Len(local_var_names) : UnderNewLayer(local_var_names[j])
  /\ \E n \in 1..Len(graph_var_to_ckpt_var) :
       Contains(graph_var_to_ckpt_var[n][1], LayerToken)

\* The checkpoint names that match the target name t under some sub-tree's
\* correspondence, by their place in the checkpoint's listing.
MatchingSources(t) ==
  { i \in 1..Len(ckpt_var_names) :
      \E k \in 1..Len(mappings) :
         _match_ckpt_to_local_var_name(ckpt_var_names[i], t, mappings[k]) }

\* C20: the keys are the target names that some source name matches, and the
\* value of a key is the last of its matching sources in the checkpoint's
\* listing; several matching sources raise no error.
C20_IndexContents ==
  RemapBuilt =>
     /\ DictKeys(graph_var_to_ckpt_var) =
          { local_var_names[j] : j \in { n \in 1..Len(local_var_names) :
                                          MatchingSources(local_var_names[n]) # {} } }
     /\ \A n \in 1..Len(graph_var_to_ckpt_var) :
          graph_var_to_ckpt_var[n][2] =
            ckpt_var_names[Max(MatchingSources(graph_var_to_ckpt_var[n][1]))]

\* Two names of the checkpoint match one variable of the model.
C20_Witness ==
  /\ RemapBuilt
  /\ \E n \in 1..Len(graph_var_to_ckpt_var) :
       Cardinality(MatchingSources(graph_var_to_ckpt_var[n][1])) >= 2

\* A call of one of the returned functions has been made.
Queried == query_name # <<>>

\* C21: the two query views agree and are read-only: mapping_fn(n) returns a
\* value exactly when filter_fn(n) is true and raises KeyError exactly when
\* filter_fn(n) is false, the value is the dict's entry for n, and a call
\* leaves the dict as it was.
C21_ViewsAgree ==
  [][\A n \in QueryNames :
       Query(n) =>
         /\ graph_var_to_ckpt_var' = graph_var_to_ckpt_var
         /\ (query_mapping'.error = "none") <=> query_filter'
         /\ (query_mapping'.error = "KeyError") <=> ~query_filter'
         /\ query_filter' <=>
              \E i \in 1..Len(graph_var_to_ckpt_var) :
                /\ graph_var_to_ckpt_var[i][1] = n
                /\ query_mapping'.value = graph_var_to_ckpt_var[i][2]]_vars

\* A restorable name was asked about, in an index that leaves another name
\* out.
C21_Witness ==
  /\ Queried
  /\ query_filter
  /\ query_mapping.error = "none"
  /\ \E n \in QueryNames : ~filter_fn(n)

\* flexible_ckpt_init_mapping has run, with or without an error.
RemapDone == fn_pc = "done" /\ ckpt_var_names # <<>>

\* The new layers given for sub-tree k (1: encoder or the single stack,
\* 2: decoder).
SubTreeNew(k) ==
  IF new_layers = None \/ k > Len(new_layers) THEN <<>> ELSE new_layers[k]

\* The block/layer groups of sub-tree k in the checkpoint, and those of the
\* current model that are not new, counted from the inferred structure.
SourceGroups(k) ==
  BlocksOr1(ckpt_counts.max_block_num[k])
    * Cardinality(0..(ckpt_counts.max_layer_num[k] - 1))

TargetGroups(k) ==
  BlocksOr1(local_counts.max_block_num[k])
    * Cardinality({ l \in 0..(local_counts.max_layer_num[k] - 1) :
                      ~InList(l, SubTreeNew(k)) })

\* Sub-tree k exists on both sides and its two group counts differ.
SubTreeMismatched(k) ==
  /\ k <= Len(ckpt_counts.max_block_num)
  /\ k <= Len(local_counts.max_block_num)
  /\ SourceGroups(k) # TargetGroups(k)

\* C22: when the encoder's or the decoder's correspondence is structurally
\* mismatched, flexible_ckpt_init_mapping raises ValueError before the index
\* is filled: the dict is empty, no function is returned, so none is ever
\* called and no name is reported restorable.
C22_ErrorsPrecedeRestoration ==
  (RemapDone /\ \E k \in 1..2 : SubTreeMismatched(k)) =>
     /\ remap_error = "ValueError"
     /\ graph_var_to_ckpt_var = <<>>
     /\ ~Queried
     /\ ~query_filter

\* An encoder-decoder whose encoder corresponds and whose decoder does not.
C22_Witness ==
  /\ RemapDone
  /\ Len(ckpt_counts.max_block_num) = 2
  /\ ~SubTreeMismatched(1)
  /\ SubTreeMismatched(2)
  /\ remap_error = "ValueError"

\* The sequence is open and the directory holds a checkpoint at or above the
\* ceiling.
CeilingReached ==
  /\ ContinuousWithCeiling
  /\ \E s \in ListedSteps : s >= stop_after

\* The same, for a checkpoint that is also above the floor.
CeilingReachedAboveFloor ==
  /\ ContinuousWithCeiling
  /\ \E s \in ListedSteps : s >= stop_after /\ s > skip_until

\* Without a ceiling the sequence never ends.
NoCeilingNeverEnds == [](stop_after = NoStep => ~cont_done)

\* C23 as stated: for any floor, once the directory holds a checkpoint whose
\* step >= ceiling the sequence ends, and without a ceiling it never ends.
C23_TerminatesAnyFloor ==
  /\ CeilingReached ~> cont_done
  /\ NoCeilingNeverEnds

\* C23 amended: once the directory holds a checkpoint whose step is >= the
\* ceiling and > the floor the sequence ends; without a ceiling it never
\* ends.
C23_TerminatesAboveFloor ==
  /\ CeilingReachedAboveFloor ~> cont_done
  /\ NoCeilingNeverEnds

\* A sequence whose floor is not below its ceiling has ended.
C23_Witness ==
  /\ sel_kind = "cont"
  /\ stop_after # NoStep
  /\ skip_until >= stop_after
  /\ cont_done

\* C24: every count the inferer returns has num_layers >= 1 and num_blocks
\* either None or >= 1, also when a sub-tree has no layer_NNN token.
C24_CountsAtLeastOne ==
  InferDone =>
     \A k \in 1..Len(max_layer_num) :
        /\ max_layer_num[k] >= 1
        /\ max_block_num[k] = None \/ max_block_num[k][1] >= 1

\* The block/layer group a pattern names: the pattern without its prefix
\* and wildcard.
PatternGroup(regex) ==
  LET i == Find(regex, Wildcard, 1)
  IN  IF i = 0 THEN regex ELSE SubSeq(regex, i + Len(Wildcard), Len(regex))

\* Entry k of the correspondence pairs the groups of the two names.
PairsGroups(k) ==
  /\ re_match(match_args.mapping[k][1], match_args.ckpt_var_name)
  /\ re_match(match_args.mapping[k][2], match_args.local_var_name)

\* The two names are the same text around the groups of entry k: the source
\* group at position i of the source name, the target group in its place in
\* the target name.
SameAroundGroup(k) ==
  LET src == match_args.ckpt_var_name
      tgt == match_args.local_var_name
      sg == PatternGroup(match_args.mapping[k][1])
      tg == PatternGroup(match_args.mapping[k][2])
  IN  \E i \in 1..Len(src) :
         /\ HasAt(src, i, sg)
         /\ tgt = SubSeq(src, 1, i - 1) \o tg \o SubSeq(src, i + Len(sg), Len(src))

\* C25: a reported match of two names of layer groups comes from an entry
\* whose patterns match the two names and around whose groups the names are
\* identical; two names whose groups an entry pairs but which differ below
\* or above the group do not match through it.
C25_RebuildIsSound ==
  (/\ MatchDone
   /\ InLayerGroup(match_args.ckpt_var_name)
   /\ InLayerGroup(match_args.local_var_name))
     => (match_result <=>
           \E k \in 1..Len(match_args.mapping) :
              PairsGroups(k) /\ SameAroundGroup(k))

\* Two variables with the same leaf in groups that an entry pairs, at
\* different paths below the group: no match.
C25_Witness ==
  /\ MatchDone
  /\ ~match_result
  /\ LastSegment(match_args.ckpt_var_name) = LastSegment(match_args.local_var_name)
  /\ \E k \in 1..Len(match_args.mapping) : PairsGroups(k) /\ ~SameAroundGroup(k)

\* The name carries at most one layer token and at most one block token.
OneGroup(v) ==
  /\ Cardinality({ i \in 1..Len(v) : HasAt(v, i, LayerToken) }) <= 1
  /\ Cardinality({ i \in 1..Len(v) : HasAt(v, i, BlockToken) }) <= 1

WellFormedNames ==
  /\ \A i \in 1..Len(ckpt_var_names) : OneGroup(ckpt_var_names[i])
  /\ \A j \in 1..Len(local_var_names) : OneGroup(local_var_names[j])

\* C26: over well-formed names a built index is one-to-one: every target
\* name has at most one matching source name, and no two target names are
\* mapped to the same source name.
C26_OneToOne ==
  (RemapBuilt /\ WellFormedNames) =>
     /\ \A j \in 1..Len(local_var_names) :
          Cardinality(MatchingSources(local_var_names[j])) <= 1
     /\ \A a, b \in 1..Len(graph_var_to_ckpt_var) :
          graph_var_to_ckpt_var[a][2] = graph_var_to_ckpt_var[b][2] => a = b

\* An index over well-formed names that restores the layers of two blocks.
C26_Witness ==
  /\ RemapBuilt
  /\ WellFormedNames
  /\ \E a, b \in 1..Len(graph_var_to_ckpt_var) :
       /\ a # b
       /\ Contains(graph_var_to_ckpt_var[a][1], BlockToken)
       /\ Contains(graph_var_to_ckpt_var[b][1], BlockToken)
       /\ graph_var_to_ckpt_var[a][2] # graph_var_to_ckpt_var[a][1]

\* C27: a model restored from a checkpoint with its own variable names and
\* no new layers: the index is built, every name is restorable and is mapped
\* to itself.
C27_IdentityOnSameNames ==
  (/\ RemapDone
   /\ ckpt_var_names = local_var_names
   /\ new_layers = None)
     => /\ remap_error = "none"
        /\ \A j \in 1..Len(local_var_names) :
             /\ filter_fn(local_var_names[j])
             /\ mapping_fn(local_var_names[j]).value = local_var_names[j]

\* The name list belongs to an encoder-decoder: a name begins with "encoder/".
IsEncoderDecoder(names) ==
  \E i \in 1..Len(names) : StartsWith(names[i], EncoderPrefix)

\* C28: when one of checkpoint and graph is an encoder-decoder and the other
\* a single stack, building the index fails with an error.
C28_KindDisagreementIsError ==
  (RemapDone /\ IsEncoderDecoder(ckpt_var_names) # IsEncoderDecoder(local_var_names))
     => remap_error # "none"

\* C29: every element handed to the consumer, returned by a call or yielded
\* by the continuous sequence, is an identifier from which
\* get_step_from_checkpoint_path recovers a step.
C29_ElementsAreIdentifiers ==
  /\ outcome = "returned" =>
       \A i \in 1..Len(result) :
          /\ IsCheckpointPath(result[i])
          /\ get_step_from_checkpoint_path(result[i]) # NoStep
  /\ \A i \in 1..Len(yielded) : IsCheckpointPath(yielded[i])

\* The steps of the checkpoints in the directory state D.
StepsIn(D) == { get_step_from_checkpoint_path(f) : f \in D } \ { NoStep }

\* What resolving the whole requested list against the one directory state
\* D can return: each request takes a step of D nearest to it (either one on
\* a tie), and the steps are made unique and sorted.
ResolvedAgainst(D) ==
  { [i \in 1..Len(SortedSeq(Range(pick))) |->
       _get_checkpoint_path(SortedSeq(Range(pick))[i])] :
      pick \in { f \in [1..Len(steps_req) -> StepsIn(D)] :
                   \A i \in 1..Len(steps_req) :
                      \A x \in StepsIn(D) :
                         Abs(steps_req[i] - f[i]) <= Abs(steps_req[i] - x) } }

\* C30: the list a closest-mode call returns while the training loop saves
\* checkpoints is what resolving the whole list against one state of the
\* directory, among those it went through during the call, returns.
C30_SnapshotConsistent ==
  (sel_kind = "list" /\ outcome = "returned" /\ snapshots # {}) =>
     \E D \in snapshots : result \in ResolvedAgainst(D)

=============================================================================
